---- MODULE Spec2Model ----
(***************************************************************************)
(* Model of python/ray/util/client/server/proxier.py: the ProxyManager     *)
(* (port pool, SpecificServer table, reaper), the DataServicerProxy        *)
(* (Datapath session protocol with reconnect and finalization) and the     *)
(* control RPCs of RayletServicerProxy that are answered locally or        *)
(* forwarded through get_channel.                                          *)
(*                                                                         *)
(* Threads are two Datapath invocations (an earlier and a later one: the   *)
(* races of the session protocol are between two invocations), the reaper  *)
(* thread (_check_processes) and one control-RPC servicer thread; the port *)
(* pool is also examined on its own, over a wider range of ports.  A       *)
(* `with lock:` block that only reads, or that updates its dictionaries in *)
(* one go, is one step taken while the lock is free; create_specific_      *)
(* server, the reaper pass and the cleanup of a finalization are an        *)
(* acquiring step and a releasing step, with the lock held in between.     *)
(***************************************************************************)
EXTENDS Integers, Sequences, FiniteSets, TLC

\* ---------------------------------------------------------------- bounds
NumClients == 2      \* distinct non-empty client ids
NumPorts == 2        \* width of the modelled port range
MaxTime == 1         \* largest value the clock time.time() reaches
MaxPool == 4         \* ports of the pool when it is examined on its own
MaxMsgs == 3         \* messages a caller sends on its request stream

\* ------------------------------------------------------- program constants
MIN_SPECIFIC_SERVER_PORT == 23000
MAX_SPECIFIC_SERVER_PORT == MIN_SPECIFIC_SERVER_PORT + NumPorts
LOGSTREAM_RETRIES == 5
\* _create_runtime_env: max_retries, and the first wait_time_s in ms
max_retries == 5
INITIAL_WAIT_MS == 500

Ports == MIN_SPECIFIC_SERVER_PORT .. (MAX_SPECIFIC_SERVER_PORT - 1)
\* the Datapath invocations, numbered in the order they begin
Streams == {1, 2}
Clients == 1 .. NumClients
EmptyClientId == 0          \* client_id == ""
Times == 0 .. MaxTime
\* reconnect_grace_period of an init message: none, or some seconds
Graces == {0, 5}

\* thread identities (lock owners)
NoThread == 0
ReaperThread == 3
RpcThread == 4
LogThread == 5

\* a SpecificServer object is named by the Datapath invocation that created
\* it; NoServer is Python's None
NoServer == 0

VARIABLES
  servers,            \* ProxyManager.servers: dict in insertion order,
                      \*   a sequence of [client, sid]
  free_ports,         \* ProxyManager._free_ports
  server_lock,        \* owner of ProxyManager.server_lock (RLock)
  srv_port,           \* SpecificServer.port of object sid (0: not created)
  fut,                \* SpecificServer.process_handle_future of object sid
  proc,               \* state of the OS process spawned for object sid
  num_clients,        \* DataServicerProxy.num_clients
  clients_last_seen,  \* DataServicerProxy.clients_last_seen
  reconnect_grace_periods, \* DataServicerProxy.reconnect_grace_periods
  clients_lock,       \* owner of DataServicerProxy.clients_lock (Lock)
  now,                \* the value time.time() returns
  pc,                 \* position of each Datapath invocation
  client_id,          \* Datapath local client_id
  reconnecting,       \* Datapath local reconnecting
  start_time,         \* Datapath local start_time
  server,             \* Datapath local server
  cleanup_requested,  \* Datapath local cleanup_requested
  init_req,           \* Datapath local init_req: kind of the first message
  status,             \* how each Datapath invocation went / ended
  responses,          \* the responses each Datapath invocation yielded
  superseded,         \* history: streams for which a later reconnecting
                      \*   stream of the same client recorded its start time
  rpc,                \* the control-RPC servicer thread
  logs,               \* the Logstream servicer thread
  env,                \* a call of ProxyManager._create_runtime_env
  fwd                 \* the request stream of a new Datapath invocation:
                      \*   what the caller sends and what is forwarded

vars == <<servers, free_ports, server_lock, srv_port, fut, proc, num_clients,
          clients_last_seen, reconnect_grace_periods, clients_lock, now, pc,
          client_id, reconnecting, start_time, server, cleanup_requested,
          init_req, status, responses, superseded, rpc, logs, env, fwd>>

mgrVars == <<servers, free_ports, server_lock, srv_port>>
dataVars == <<num_clients, clients_last_seen, reconnect_grace_periods,
              clients_lock>>
localVars == <<client_id, reconnecting, start_time, server,
               cleanup_requested, init_req>>
\* the threads and calls that are examined beside one session
sideVars == <<logs, env, fwd>>

\* ------------------------------------------------------------ dict helpers
RECURSIVE SeqToSet(_)
SeqToSet(s) == IF s = <<>> THEN {} ELSE {Head(s)} \cup SeqToSet(Tail(s))

\* keys of ProxyManager.servers
ServerKeys == {servers[i].client : i \in DOMAIN servers}

\* a lookup that finds no server
ServersGet_Absent(c) == NoServer

\* self.servers.get(client_id)
ServersGet(c) ==
  IF \E i \in DOMAIN servers : servers[i].client = c
  THEN LET i == CHOOSE j \in DOMAIN servers : servers[j].client = c
       IN servers[i].sid
  ELSE NoServer

RECURSIVE DictDel(_, _)
DictDel(d, c) ==
  IF d = <<>> THEN <<>>
  ELSE IF Head(d).client = c THEN Tail(d)
  ELSE <<Head(d)>> \o DictDel(Tail(d), c)

\* d[k] = v on a Python dict held as a function
MapSet(m, k, v) == [x \in (DOMAIN m) \cup {k} |-> IF x = k THEN v ELSE m[x]]
\* del d[k]
MapDel(m, k) == [x \in (DOMAIN m) \ {k} |-> m[x]]
EmptyMap == [x \in {} |-> 0]

\* ------------------------------------------------------------------- locks
\* threading.RLock: free, or re-acquired by its owner
RLockAcquirable(lock, t) == lock = NoThread \/ lock = t
\* threading.Lock: free
LockAcquirable(lock) == lock = NoThread

\* ---------------------------------------------------------- SpecificServer
\* SpecificServer.is_ready
IsReady(sid) == fut[sid] # "unset"

\* set_result without the is_ready guard of line 95, on a future that
\* accepts a second result
SetResult_Overwrite(cur, val) == val

\* SpecificServer.set_result: the value of the future afterwards (a second
\* Future.set_result raises InvalidStateError and changes nothing either)
SetResult(cur, val) == IF cur = "unset" THEN val ELSE cur

\* SpecificServer.poll(), lines 76-80: on an unresolved future
\* result(timeout=0.1) waits for the future and times out
PollWaits(sid) == fut[sid] = "unset"

\* a poll that reports an exit for every resolved future
PollExited_Resolved(sid) == fut[sid] # "unset"

\* a poll that never reports an exit
PollExited_Never(sid) == FALSE

\* SpecificServer.poll() is not None: the future holds a process that exited
\* (an unresolved future times out, the failure sentinel falls through)
PollExited(sid) == fut[sid] = "proc" /\ proc[sid] = "exited"

\* --------------------------------------------------------------- port pool
\* _get_unused_port with line 150 putting the port back at the head of the
\* list, so that the next iteration probes it again
RECURSIVE GetUnusedPortLoop_Reprobe(_, _, _)
GetUnusedPortLoop_Reprobe(free, busy, n) ==
  IF n = 0 THEN [ok |-> FALSE, port |-> 0, free |-> free]
  ELSE LET port == Head(free)
           rest == Tail(free)
       IN IF port \in busy
          THEN GetUnusedPortLoop_Reprobe(<<port>> \o rest, busy, n - 1)
          ELSE [ok |-> TRUE, port |-> port, free |-> rest]

\* ProxyManager._get_unused_port with `busy` the ports whose bind fails
RECURSIVE GetUnusedPortLoop(_, _, _)
GetUnusedPortLoop(free, busy, n) ==
  IF n = 0 THEN [ok |-> FALSE, port |-> 0, free |-> free]
  ELSE LET port == Head(free)
           rest == Tail(free)
       IN IF port \in busy
          THEN GetUnusedPortLoop(Append(rest, port), busy, n - 1)
          ELSE [ok |-> TRUE, port |-> port, free |-> rest]

\* _get_unused_port without line 150: a port whose bind failed is dropped
RECURSIVE GetUnusedPortLoop_DropBusy(_, _, _)
GetUnusedPortLoop_DropBusy(free, busy, n) ==
  IF n = 0 THEN [ok |-> FALSE, port |-> 0, free |-> free]
  ELSE LET port == Head(free)
           rest == Tail(free)
       IN IF port \in busy
          THEN GetUnusedPortLoop_DropBusy(rest, busy, n - 1)
          ELSE [ok |-> TRUE, port |-> port, free |-> rest]

GetUnusedPort_DropBusy(free, busy) ==
  GetUnusedPortLoop_DropBusy(free, busy, Len(free))

GetUnusedPort(free, busy) == GetUnusedPortLoop(free, busy, Len(free))

\* the loop of one _check_processes pass over list(self.servers.items())
RECURSIVE CheckProcessesLoop(_, _, _)
CheckProcessesLoop(items, srv, free) ==
  IF items = <<>> THEN [servers |-> srv, free |-> free]
  ELSE LET it == Head(items)
       IN IF PollExited(it.sid)
          THEN CheckProcessesLoop(Tail(items), DictDel(srv, it.client),
                                  Append(free, srv_port[it.sid]))
          ELSE CheckProcessesLoop(Tail(items), srv, free)


\* ProxyManager._check_processes: one pass under server_lock
CheckProcesses == CheckProcessesLoop(servers, servers, free_ports)

\* ------------------------------------------------------------- get_channel
\* ProxyManager.has_channel
HasChannel(c) == ServersGet(c) # NoServer /\ IsReady(ServersGet(c))

\* ProxyManager.get_channel: the outcomes it can have in the current state.
\* No server: None.  Future unresolved: wait_ready blocks (no outcome yet).
\* Failure sentinel: wait_ready raises RuntimeError, which get_channel does
\* not catch.  Process: the channel becomes ready, or channel_ready_future
\* times out (always so once the process has exited) and None is returned.
GetChannelOutcomes(c) ==
  LET sid == ServersGet(c)
  IN IF sid = NoServer THEN {"null"}
     ELSE IF fut[sid] = "unset" THEN {}
     ELSE IF fut[sid] = "failed" THEN {"raised"}
     ELSE IF proc[sid] = "running" THEN {"channel", "null"}
     ELSE {"null"}

\* -------------------------------------------------------------------- Init
RangeSeq(lo, hi) == [i \in 1 .. (hi - lo) |-> lo + i - 1]

RpcIdle == [pc |-> "ret", kind |-> "none", client |-> EmptyClientId,
            result |-> "none", disturbed |-> FALSE]

\* no _create_runtime_env call yet; times are in milliseconds
EnvIdle == [pc |-> "idle", retries |-> 0, wait_time_ms |-> 0, posts |-> 0,
            waits |-> <<>>, result |-> "none"]

\* a request stream of the caller: its messages, and how the iterator ends
\* after them (exhausted, grpc.RpcError itself, or another exception)
NoRequests == [msgs |-> <<>>, end |-> "stop"]
\* no request stream yet
FwdIdle == [pc |-> "idle", caller |-> NoRequests,
            request_iterator |-> NoRequests,
            new_iter |-> [head |-> <<>>, iter |-> NoRequests],
            forwarded |-> <<>>, exhausted |-> FALSE]

\* no Logstream call yet
LogIdle == [pc |-> "idle", client |-> EmptyClientId, attempts |-> 0,
            status |-> "none"]

Init ==
  /\ servers = <<>>
  /\ free_ports = RangeSeq(MIN_SPECIFIC_SERVER_PORT, MAX_SPECIFIC_SERVER_PORT)
  /\ server_lock = NoThread
  /\ srv_port = [s \in Streams |-> 0]
  /\ fut = [s \in Streams |-> "unset"]
  /\ proc = [s \in Streams |-> "none"]
  /\ num_clients = 0
  /\ clients_last_seen = EmptyMap
  /\ reconnect_grace_periods = EmptyMap
  /\ clients_lock = NoThread
  /\ now = 0
  /\ pc = [s \in Streams |-> "idle"]
  /\ client_id = [s \in Streams |-> EmptyClientId]
  /\ reconnecting = [s \in Streams |-> FALSE]
  /\ start_time = [s \in Streams |-> 0]
  /\ server = [s \in Streams |-> NoServer]
  /\ cleanup_requested = [s \in Streams |-> FALSE]
  /\ init_req = [s \in Streams |-> "none"]
  /\ status = [s \in Streams |-> "none"]
  /\ responses = [s \in Streams |-> <<>>]
  /\ superseded = {}
  /\ rpc = RpcIdle
  /\ logs = LogIdle
  /\ env = EnvIdle
  /\ fwd = FwdIdle

\* ---------------------------------------------------------------- Datapath
\* a Datapath invocation ends: its locals go out of scope
Return(s, st) ==
  /\ pc' = [pc EXCEPT ![s] = "done"]
  /\ status' = [status EXCEPT ![s] = st]
  /\ start_time' = [start_time EXCEPT ![s] = 0]
  /\ server' = [server EXCEPT ![s] = NoServer]
  /\ cleanup_requested' = [cleanup_requested EXCEPT ![s] = FALSE]
  /\ init_req' = [init_req EXCEPT ![s] = "none"]
  /\ superseded' = superseded \ {s}
  /\ UNCHANGED <<client_id, reconnecting, responses>>

\* the control RPC in flight sees a cleanup or a reaping of its client
Disturb(cs) ==
  IF rpc.pc = "inner" /\ rpc.client \in cs
  THEN [rpc EXCEPT !.disturbed = TRUE] ELSE rpc

\* client ids are interchangeable: the k-th distinct id seen is named k
UsedClients == {client_id[s] : s \in {x \in Streams : pc[x] # "idle"}}
NextClients == {c \in Clients : c = 1 \/ (c - 1) \in UsedClients}

\* time.time(): the last reading, or a later instant
ClockReadings == {t \in Times : t = now \/ t = now + 1}

\* lines 663-669: read the clock and the metadata; "" ends the call
DatapathBegin(s) ==
  /\ pc[s] = "idle"
  /\ IF s = 1 THEN TRUE ELSE pc[s - 1] # "idle"
  /\ \E c \in NextClients \cup {EmptyClientId}, r \in BOOLEAN,
        t \in ClockReadings :
       /\ client_id' = [client_id EXCEPT ![s] = c]
       /\ reconnecting' = [reconnecting EXCEPT ![s] = r]
       /\ now' = t
       /\ IF c = EmptyClientId
          THEN /\ pc' = [pc EXCEPT ![s] = "done"]
               /\ status' = [status EXCEPT ![s] = "empty_client_id"]
               /\ UNCHANGED start_time
          ELSE /\ pc' = [pc EXCEPT ![s] = "entry"]
               /\ start_time' = [start_time EXCEPT ![s] = t]
               /\ UNCHANGED status
  /\ UNCHANGED <<mgrVars, dataVars, fut, proc, server,
                 cleanup_requested, init_req, responses, superseded, rpc, sideVars>>

\* the reconnect check without lines 673-681
ReconnectKnown_Always(c) == TRUE

\* line 673: the session is still known
ReconnectKnown(c) == c \in DOMAIN clients_last_seen

\* lines 671-682: the reconnect check under clients_lock
DatapathReconnectCheck(s) ==
  /\ pc[s] = "entry" /\ reconnecting[s]
  /\ LockAcquirable(clients_lock)
  /\ IF ReconnectKnown(client_id[s])
     THEN /\ clients_last_seen' =
               MapSet(clients_last_seen, client_id[s], start_time[s])
          /\ pc' = [pc EXCEPT ![s] = "r_server"]
          /\ superseded' = superseded \cup
               {e \in Streams : /\ e < s
                                /\ client_id[e] = client_id[s]
                                /\ pc[e] \notin {"idle", "done", "fin_held"}}
          /\ UNCHANGED <<status, responses, localVars>>
     ELSE /\ Return(s, "NOT_FOUND")
          /\ UNCHANGED clients_last_seen
  /\ UNCHANGED <<mgrVars, fut, proc, num_clients, reconnect_grace_periods,
                 clients_lock, now, rpc, sideVars>>

\* line 683: server = _get_server_for_client(client_id)
DatapathReconnectGetServer(s) ==
  /\ pc[s] = "r_server"
  /\ RLockAcquirable(server_lock, s)
  /\ server' = [server EXCEPT ![s] = ServersGet(client_id[s])]
  /\ pc' = [pc EXCEPT ![s] = "r_channel"]
  /\ UNCHANGED <<mgrVars, dataVars, fut, proc, now, client_id, reconnecting,
                 start_time, cleanup_requested, init_req, status, responses,
                 superseded, rpc, sideVars>>

\* line 684 (outside the try block): channel = get_channel(client_id); a
\* RuntimeError of wait_ready leaves Datapath without finalization; with a
\* null channel the stub construction of line 739 raises inside the try
DatapathReconnectGetChannel(s) ==
  /\ pc[s] = "r_channel"
  /\ RLockAcquirable(server_lock, s)
  /\ \E o \in GetChannelOutcomes(client_id[s]) :
       \/ /\ o = "raised"
          /\ Return(s, "raised")
       \/ /\ o = "channel"
          /\ pc' = [pc EXCEPT ![s] = "forward"]
          /\ UNCHANGED <<status, responses, localVars, superseded>>
       \/ /\ o = "null"
          /\ \E recoverable \in BOOLEAN :
               cleanup_requested' =
                 [cleanup_requested EXCEPT ![s] = ~recoverable]
          /\ pc' = [pc EXCEPT ![s] = "fin_wait"]
          /\ UNCHANGED <<status, responses, client_id, reconnecting,
                         start_time, server, init_req, superseded>>
  /\ UNCHANGED <<mgrVars, dataVars, fut, proc, now, rpc, sideVars>>


\* ProxyManager.create_specific_server, lines 195-206: under server_lock,
\* the assertion, then _get_unused_port (which re-enters the RLock)
DatapathCreateServer(s) ==
  /\ pc[s] = "entry" /\ ~reconnecting[s]
  /\ RLockAcquirable(server_lock, s)
  /\ IF ServersGet(client_id[s]) # NoServer
     THEN /\ Return(s, "AssertionError")
          /\ UNCHANGED <<free_ports, srv_port, server_lock>>
     ELSE \E busy \in SUBSET Ports :
            LET r == GetUnusedPort(free_ports, busy)
            IN /\ free_ports' = r.free
               /\ IF r.ok
                  THEN /\ srv_port' = [srv_port EXCEPT ![s] = r.port]
                       /\ server_lock' = s
                       /\ pc' = [pc EXCEPT ![s] = "create"]
                       /\ UNCHANGED <<status, responses, localVars,
                                      superseded>>
                  ELSE /\ Return(s, "PortExhausted")
                       /\ UNCHANGED <<srv_port, server_lock>>
  /\ UNCHANGED <<servers, dataVars, fut, proc, now, rpc, sideVars>>

\* create_specific_server, lines 207-208: publish the server, release
DatapathCreateServerExit(s) ==
  /\ pc[s] = "create" /\ server_lock = s
  /\ servers' = Append(servers, [client |-> client_id[s], sid |-> s])
  /\ server' = [server EXCEPT ![s] = s]
  /\ server_lock' = NoThread
  /\ pc' = [pc EXCEPT ![s] = "register"]
  /\ UNCHANGED <<free_ports, srv_port, dataVars, fut, proc, now, client_id,
                 reconnecting, start_time, cleanup_requested, init_req,
                 status, responses, superseded, rpc, sideVars>>

\* lines 690-692: record the stream and count the client
DatapathRegister(s) ==
  /\ pc[s] = "register"
  /\ LockAcquirable(clients_lock)
  /\ clients_last_seen' =
       MapSet(clients_last_seen, client_id[s], start_time[s])
  /\ num_clients' = num_clients + 1
  /\ pc' = [pc EXCEPT ![s] = "read_init"]
  /\ UNCHANGED <<mgrVars, reconnect_grace_periods, clients_lock, fut, proc,
                 now, localVars, status, responses, superseded, rpc, sideVars>>

\* lines 727-734: the init response with ok=False and the traceback as msg
InitFailure == [type |-> "init", ok |-> FALSE]
\* line 747: a response of the backend, passed on
Forwarded == [type |-> "forwarded", ok |-> TRUE]

\* a failed start that returns without a response
YieldInitFailure_Silent(s) ==
  /\ UNCHANGED responses
  /\ pc' = [pc EXCEPT ![s] = "fin_wait"]

\* lines 727-735: yield the init failure response and return (to finally)
YieldInitFailure(s) ==
  /\ responses' = [responses EXCEPT ![s] = Append(@, InitFailure)]
  /\ pc' = [pc EXCEPT ![s] = "fin_wait"]

\* lines 697-703: next(request_iterator) raises (caught at line 748), or
\* yields a first message whose grace period is recorded; a message that is
\* not of variant init (grace period 0) fails the assertion of
\* prepare_runtime_init_req
DatapathReadInit(s) ==
  /\ pc[s] = "read_init"
  /\ \/ /\ \E recoverable \in BOOLEAN :
             cleanup_requested' =
               [cleanup_requested EXCEPT ![s] = ~recoverable]
        /\ pc' = [pc EXCEPT ![s] = "fin_wait"]
        /\ UNCHANGED <<reconnect_grace_periods, init_req, responses>>
     \/ /\ LockAcquirable(clients_lock)
        /\ \E g \in Graces :
             reconnect_grace_periods' =
               MapSet(reconnect_grace_periods, client_id[s], g)
        /\ init_req' = [init_req EXCEPT ![s] = "init"]
        /\ pc' = [pc EXCEPT ![s] = "start"]
        /\ UNCHANGED <<cleanup_requested, responses>>
     \/ /\ LockAcquirable(clients_lock)
        /\ reconnect_grace_periods' =
             MapSet(reconnect_grace_periods, client_id[s], 0)
        /\ init_req' = [init_req EXCEPT ![s] = "other"]
        /\ YieldInitFailure(s)
        /\ UNCHANGED cleanup_requested
  /\ UNCHANGED <<mgrVars, num_clients, clients_last_seen, clients_lock, fut,
                 proc, now, client_id, reconnecting, start_time, server,
                 status, superseded, rpc, sideVars>>

\* ProxyManager.start_specific_server, lines 285-345: it raises before the
\* process exists (assertion, runtime env, spawn) and leaves the future
\* alone, or it spawns, resolves the future to the process and returns
\* whether the process is still running.  Everything but True ends in the
\* init response with ok=False of lines 727-735.
DatapathStartServer(s) ==
  /\ pc[s] = "start"
  /\ RLockAcquirable(server_lock, s)
  /\ LET sid == ServersGet(client_id[s])
     IN \/ /\ YieldInitFailure(s)
           /\ UNCHANGED <<fut, proc>>
        \/ /\ sid # NoServer
           /\ \E alive \in BOOLEAN :
                /\ proc' = [proc EXCEPT ![sid] =
                              IF alive THEN "running" ELSE "exited"]
                /\ fut' = [fut EXCEPT ![sid] = SetResult(fut[sid], "proc")]
                /\ IF alive
                   THEN /\ pc' = [pc EXCEPT ![s] = "get_channel"]
                        /\ UNCHANGED responses
                   ELSE YieldInitFailure(s)
  /\ UNCHANGED <<mgrVars, dataVars, now, localVars, status, superseded, rpc, sideVars>>

\* lines 716-726: a null channel and an error of get_channel both end in the
\* init response with ok=False
DatapathGetChannel(s) ==
  /\ pc[s] = "get_channel"
  /\ RLockAcquirable(server_lock, s)
  /\ \E o \in GetChannelOutcomes(client_id[s]) :
       IF o = "channel"
       THEN /\ pc' = [pc EXCEPT ![s] = "forward"]
            /\ UNCHANGED responses
       ELSE YieldInitFailure(s)
  /\ UNCHANGED <<mgrVars, dataVars, fut, proc, now, localVars, status,
                 superseded, rpc, sideVars>>

\* lines 739-754: the forwarded stream yields the responses of the backend
\* (or fails before the first one) and ends; the backend asked for cleanup
\* or the error was not recoverable (cleanup_requested), or neither
DatapathForward(s) ==
  /\ pc[s] = "forward"
  /\ \E cr \in BOOLEAN :
       cleanup_requested' = [cleanup_requested EXCEPT ![s] = cr]
  /\ \E rs \in {<<>>, <<Forwarded>>} :
       responses' = [responses EXCEPT ![s] = @ \o rs]
  /\ pc' = [pc EXCEPT ![s] = "fin_wait"]
  /\ UNCHANGED <<mgrVars, dataVars, fut, proc, now, client_id, reconnecting,
                 start_time, server, init_req, status, superseded, rpc, sideVars>>

\* line 772: a newer stream is active
NewerStream(last_seen, st) == last_seen > st

\* lines 756-777: the grace wait is over; under clients_lock the two
\* early returns, else the decrement
DatapathFinalize(s) ==
  /\ pc[s] = "fin_wait"
  /\ LockAcquirable(clients_lock)
  /\ IF client_id[s] \notin DOMAIN clients_last_seen
     THEN /\ Return(s, "skipped_absent")
          /\ UNCHANGED <<num_clients, clients_lock>>
     ELSE IF NewerStream(clients_last_seen[client_id[s]], start_time[s])
     THEN /\ Return(s, "skipped_newer")
          /\ UNCHANGED <<num_clients, clients_lock>>
     ELSE /\ num_clients' = num_clients - 1
          /\ clients_lock' = s
          /\ pc' = [pc EXCEPT ![s] = "fin_held"]
          /\ UNCHANGED <<status, responses, localVars, superseded>>
  /\ UNCHANGED <<mgrVars, clients_last_seen, reconnect_grace_periods, fut,
                 proc, now, rpc, sideVars>>

\* a cleanup that looks the server up again, taking server_lock inside
\* the section of clients_lock
DatapathCleanup_Lookup(s) ==
  /\ pc[s] = "fin_held" /\ clients_lock = s
  /\ server_lock = NoThread
  /\ server_lock' = s
  /\ UNCHANGED <<servers, free_ports, srv_port, dataVars, fut, proc, now,
                 pc, localVars, status, responses, superseded, rpc,
                 sideVars>>

\* lines 778-781: forget the client, resolve the future of the local
\* `server` to the failure sentinel (None has no set_result), release
DatapathCleanup(s) ==
  /\ pc[s] = "fin_held" /\ clients_lock = s
  /\ clients_last_seen' = MapDel(clients_last_seen, client_id[s])
  /\ reconnect_grace_periods' = MapDel(reconnect_grace_periods, client_id[s])
  /\ fut' = IF server[s] = NoServer THEN fut
            ELSE [fut EXCEPT ![server[s]] = SetResult(fut[server[s]], "failed")]
  /\ clients_lock' = NoThread
  /\ rpc' = Disturb({client_id[s]})
  /\ Return(s, "cleaned")
  /\ UNCHANGED <<mgrVars, num_clients, proc, now, sideVars>>

\* ------------------------------------------------------------------ reaper
\* _check_processes, line 388: the reaper takes server_lock
ReaperEnter ==
  /\ LockAcquirable(server_lock)
  /\ server_lock' = ReaperThread
  /\ UNCHANGED <<servers, free_ports, srv_port, dataVars, fut, proc, now,
                 pc, localVars, status, responses, superseded, rpc, sideVars>>

\* _check_processes, lines 389-397: the pass, then the lock is released
ReaperPass ==
  /\ server_lock = ReaperThread
  /\ servers' = CheckProcesses.servers
  /\ free_ports' = CheckProcesses.free
  /\ server_lock' = NoThread
  /\ rpc' = Disturb(ServerKeys \ {CheckProcesses.servers[i].client :
                                    i \in DOMAIN CheckProcesses.servers})
  /\ UNCHANGED <<srv_port, dataVars, fut, proc, now, pc, localVars, status,
                 responses, superseded, sideVars>>

\* ------------------------------------------------------------- environment
\* a backend process exits (by itself or killed)
ProcessExit(sid) ==
  /\ proc[sid] = "running"
  /\ proc' = [proc EXCEPT ![sid] = "exited"]
  /\ UNCHANGED <<mgrVars, dataVars, fut, now, pc, localVars, status,
                 responses, superseded, rpc, sideVars>>

\* ------------------------------------------------------------ control RPCs
\* RayletServicerProxy.ClusterInfo, line 554: answered without forwarding
ClusterInfoLocal(type) == type = "PING"

\* a KV handler that always forwards
KVLocal_Never(has_channel) == FALSE

\* KVPut .. PinRuntimeEnvURI, e.g. line 452: answered by the internal KV
KVLocal(has_channel) == ~has_channel

\* ClusterInfo, lines 550-557 (Init, Terminate and the other forwarded RPCs
\* take the path of a ClusterInfo that is not a PING)
RpcClusterInfo ==
  /\ rpc.pc = "ret"
  /\ \E type \in {"PING", "INFO"}, c \in NextClients :
       rpc' = IF ClusterInfoLocal(type)
              THEN [RpcIdle EXCEPT !.kind = type, !.result = "local"]
              ELSE [RpcIdle EXCEPT !.pc = "inner", !.kind = type,
                                   !.client = c]
  /\ UNCHANGED <<mgrVars, dataVars, fut, proc, now, pc, localVars, status,
                 responses, superseded, sideVars>>

\* KVPut, KVGet, KVDel, KVList, KVExists, PinRuntimeEnvURI, lines 443-543
RpcKV ==
  /\ rpc.pc = "ret"
  /\ RLockAcquirable(server_lock, RpcThread)
  /\ \E c \in NextClients :
       rpc' = IF KVLocal(HasChannel(c))
              THEN [RpcIdle EXCEPT !.kind = "KV", !.client = c,
                                   !.result = "local"]
              ELSE [RpcIdle EXCEPT !.pc = "inner", !.kind = "KV",
                                   !.client = c]
  /\ UNCHANGED <<mgrVars, dataVars, fut, proc, now, pc, localVars, status,
                 responses, superseded, sideVars>>

\* _call_inner_function, lines 418-423: get_channel and what it yields
RpcCallInner ==
  /\ rpc.pc = "inner"
  /\ RLockAcquirable(server_lock, RpcThread)
  /\ \E o \in GetChannelOutcomes(rpc.client) :
       rpc' = [rpc EXCEPT !.pc = "ret", !.result = o]
  /\ UNCHANGED <<mgrVars, dataVars, fut, proc, now, pc, localVars, status,
                 responses, superseded, sideVars>>

RpcStep == RpcClusterInfo \/ RpcKV \/ RpcCallInner

\* --------------------------------------------------------------- Logstream
\* lines 789-794: the metadata; "" ends the call
LogstreamBegin ==
  /\ logs.pc \in {"idle", "done"}
  /\ \E c \in NextClients \cup {EmptyClientId} :
       logs' = IF c = EmptyClientId
               THEN [LogIdle EXCEPT !.pc = "done",
                                    !.status = "empty_client_id"]
               ELSE [LogIdle EXCEPT !.pc = "get_channel", !.client = c]
  /\ UNCHANGED <<mgrVars, dataVars, fut, proc, now, pc, localVars, status,
                 responses, superseded, rpc, env, fwd>>

\* lines 799-805: one iteration of the retry loop; a channel leaves the
\* loop, None sleeps LOGSTREAM_RETRY_INTERVAL_SEC and goes on, an error of
\* get_channel leaves Logstream
LogstreamGetChannel ==
  /\ logs.pc = "get_channel"
  /\ logs.attempts < LOGSTREAM_RETRIES
  /\ RLockAcquirable(server_lock, LogThread)
  /\ \E o \in GetChannelOutcomes(logs.client) :
       logs' = [logs EXCEPT
                  !.attempts = @ + 1,
                  !.pc = IF o = "channel" THEN "forward"
                         ELSE IF o = "raised" THEN "done" ELSE @,
                  !.status = IF o = "raised" THEN "raised" ELSE @]
  /\ UNCHANGED <<mgrVars, dataVars, fut, proc, now, pc, localVars, status,
                 responses, superseded, rpc, env, fwd>>

\* lines 807-813: the loop ended with channel None
LogstreamNotFound ==
  /\ logs.pc = "get_channel"
  /\ logs.attempts = LOGSTREAM_RETRIES
  /\ logs' = [logs EXCEPT !.pc = "done", !.status = "NOT_FOUND"]
  /\ UNCHANGED <<mgrVars, dataVars, fut, proc, now, pc, localVars, status,
                 responses, superseded, rpc, env, fwd>>

\* lines 815-824: the forwarded log stream, until it ends or fails
LogstreamForward ==
  /\ logs.pc = "forward"
  /\ logs' = [logs EXCEPT !.pc = "done", !.status = "forwarded"]
  /\ UNCHANGED <<mgrVars, dataVars, fut, proc, now, pc, localVars, status,
                 responses, superseded, rpc, env, fwd>>

LogstreamStep ==
  \/ LogstreamBegin
  \/ LogstreamGetChannel
  \/ LogstreamNotFound
  \/ LogstreamForward

\* ----------------------------------------------------- _create_runtime_env
\* lines 238-241: the loop variables
CreateRuntimeEnvBegin ==
  /\ env.pc \in {"idle", "done"}
  /\ env' = [EnvIdle EXCEPT !.pc = "post", !.wait_time_ms = INITIAL_WAIT_MS]
  /\ UNCHANGED <<mgrVars, dataVars, fut, proc, now, pc, localVars, status,
                 responses, superseded, rpc, logs, fwd>>

\* lines 242-273: one POST to the agent: status OK returns the context,
\* FAILED raises RuntimeError, another status fails the assertion (none of
\* them is caught), URLError is caught and goes on to the backoff
CreateRuntimeEnvPost ==
  /\ env.pc = "post"
  /\ env.retries <= max_retries
  /\ \E reply \in {"OK", "FAILED", "UNKNOWN", "URLError"} :
       env' = [env EXCEPT
                 !.posts = @ + 1,
                 !.pc = IF reply = "URLError" THEN "sleep" ELSE "done",
                 !.result = CASE reply = "OK" -> "context"
                              [] reply = "FAILED" -> "RuntimeError"
                              [] reply = "UNKNOWN" -> "AssertionError"
                              [] OTHER -> @]
  /\ UNCHANGED <<mgrVars, dataVars, fut, proc, now, pc, localVars, status,
                 responses, superseded, rpc, logs, fwd>>

\* lines 275-283: time.sleep(wait_time_s), retries += 1, wait_time_s *= 2,
\* then the loop test; when it fails, TimeoutError is raised
CreateRuntimeEnvBackoff ==
  /\ env.pc = "sleep"
  /\ env' = [env EXCEPT
               !.waits = Append(@, env.wait_time_ms),
               !.retries = @ + 1,
               !.wait_time_ms = @ * 2,
               !.pc = IF env.retries + 1 <= max_retries
                      THEN "post" ELSE "done",
               !.result = IF env.retries + 1 <= max_retries
                          THEN @ ELSE "TimeoutError"]
  /\ UNCHANGED <<mgrVars, dataVars, fut, proc, now, pc, localVars, status,
                 responses, superseded, rpc, logs, fwd>>

CreateRuntimeEnvStep ==
  \/ CreateRuntimeEnvBegin
  \/ CreateRuntimeEnvPost
  \/ CreateRuntimeEnvBackoff

\* ------------------------------------------------------ the request stream
\* the request streams a caller can send: up to MaxMsgs messages, numbered
\* by req_id in the order sent, each an init message or another one
CallerStreams ==
  { [msgs |-> [i \in 1 .. n |-> [type |-> ty[i], req_id |-> i,
                                   mutated |-> FALSE]],
     end |-> e] :
      n \in 0 .. MaxMsgs, ty \in [1 .. MaxMsgs -> {"init", "data"}],
      e \in {"stop", "RpcError", "other"} }

\* RequestIteratorProxy.__next__, lines 619-633: the next message; at the
\* end StopIteration, also for an exception that is exactly grpc.RpcError;
\* any other exception is raised again
RequestIteratorNext(it) ==
  IF it.msgs # <<>>
  THEN [kind |-> "msg", msg |-> Head(it.msgs),
        rest |-> [it EXCEPT !.msgs = Tail(@)]]
  ELSE [kind |-> IF it.end = "other" THEN "raise" ELSE "stop",
        msg |-> [type |-> "none", req_id |-> 0, mutated |-> FALSE],
        rest |-> it]

\* prepare_runtime_init_req, lines 597-609: the init message with the
\* prepared job config copied into it (same req_id)
PrepareInitReq(m) == [m EXCEPT !.mutated = TRUE]

\* a chain that leaves out its first argument
Chain_Dropped(first, it) == [head |-> <<>>, iter |-> it]

\* line 737: chain([modified_init_req], request_iterator)
Chain(first, it) == [head |-> <<first>>, iter |-> it]

\* next() on the chain: the list first, then the iterator
ChainNext(ch) ==
  IF ch.head # <<>>
  THEN [kind |-> "msg", msg |-> Head(ch.head),
        rest |-> [ch EXCEPT !.head = Tail(@)]]
  ELSE LET r == RequestIteratorNext(ch.iter)
       IN [kind |-> r.kind, msg |-> r.msg,
           rest |-> [ch EXCEPT !.iter = r.rest]]

\* line 663: a caller opens a request stream
FwdBegin ==
  /\ fwd.pc \in {"idle", "done"}
  /\ \E c \in CallerStreams :
       fwd' = [FwdIdle EXCEPT !.pc = "read_init", !.caller = c,
                              !.request_iterator = c]
  /\ UNCHANGED <<mgrVars, dataVars, fut, proc, now, pc, localVars, status,
                 responses, superseded, rpc, logs, env>>

\* lines 697-737: the first message is read and prepared, the session is
\* started; when all succeed the prepared init message is chained before
\* the rest of the request stream, otherwise nothing is forwarded
FwdReadInit ==
  /\ fwd.pc = "read_init"
  /\ LET r == RequestIteratorNext(fwd.request_iterator)
     IN IF r.kind # "msg" \/ r.msg.type # "init"
        THEN fwd' = [fwd EXCEPT !.pc = "done",
                       !.request_iterator = r.rest]
        ELSE \E started \in BOOLEAN :
               fwd' = IF started
                      THEN [fwd EXCEPT
                              !.pc = "forward",
                              !.request_iterator = r.rest,
                              !.new_iter =
                                 Chain(PrepareInitReq(r.msg), r.rest)]
                      ELSE [fwd EXCEPT !.pc = "done",
                              !.request_iterator = r.rest]
  /\ UNCHANGED <<mgrVars, dataVars, fut, proc, now, pc, localVars, status,
                 responses, superseded, rpc, logs, env>>

\* line 741: the stub takes the next message of new_iter and sends it to
\* the backend; the end of new_iter ends the forwarded request stream
FwdSend ==
  /\ fwd.pc = "forward"
  /\ LET r == ChainNext(fwd.new_iter)
     IN fwd' = IF r.kind = "msg"
               THEN [fwd EXCEPT !.forwarded = Append(@, r.msg),
                                !.new_iter = r.rest,
                                !.request_iterator = r.rest.iter]
               ELSE [fwd EXCEPT !.pc = "done",
                                !.exhausted = (r.kind = "stop")]
  /\ UNCHANGED <<mgrVars, dataVars, fut, proc, now, pc, localVars, status,
                 responses, superseded, rpc, logs, env>>

\* lines 742-754: the response stream of the backend ends or fails before
\* the request stream is exhausted
FwdEnd ==
  /\ fwd.pc = "forward"
  /\ fwd' = [fwd EXCEPT !.pc = "done"]
  /\ UNCHANGED <<mgrVars, dataVars, fut, proc, now, pc, localVars, status,
                 responses, superseded, rpc, logs, env>>

FwdStep == FwdBegin \/ FwdReadInit \/ FwdSend \/ FwdEnd

\* -------------------------------------------------------------------- Next
DatapathStep(s) ==
  \/ DatapathBegin(s)
  \/ DatapathReconnectCheck(s)
  \/ DatapathReconnectGetServer(s)
  \/ DatapathReconnectGetChannel(s)
  \/ DatapathCreateServer(s)
  \/ DatapathCreateServerExit(s)
  \/ DatapathRegister(s)
  \/ DatapathReadInit(s)
  \/ DatapathStartServer(s)
  \/ DatapathGetChannel(s)
  \/ DatapathForward(s)
  \/ DatapathFinalize(s)
  \/ DatapathCleanup(s)

Next ==
  \/ \E s \in Streams : DatapathStep(s)
  \/ ReaperEnter
  \/ ReaperPass
  \/ \E sid \in Streams : ProcessExit(sid)

\* the Datapath invocations, the reaper and the backend processes
Spec == Init /\ [][Next]_vars

\* a Datapath invocation with no other beside it: its reconnect check finds
\* no session, so the two steps after a passed check cannot be taken
DatapathSoloStep(s) ==
  \/ DatapathBegin(s)
  \/ DatapathReconnectCheck(s)
  \/ DatapathCreateServer(s)
  \/ DatapathCreateServerExit(s)
  \/ DatapathRegister(s)
  \/ DatapathReadInit(s)
  \/ DatapathStartServer(s)
  \/ DatapathGetChannel(s)
  \/ DatapathForward(s)
  \/ DatapathFinalize(s)
  \/ DatapathCleanup(s)

NextRpc ==
  \/ \E s \in {1} : DatapathSoloStep(s)
  \/ ReaperEnter
  \/ ReaperPass
  \/ \E sid \in Streams : ProcessExit(sid)
  \/ RpcStep

\* the control RPCs beside one session, the reaper and the backend process
SpecRpc == Init /\ [][NextRpc]_vars

NextSolo ==
  \/ \E s \in {1} : DatapathSoloStep(s)
  \/ ReaperEnter
  \/ ReaperPass
  \/ \E sid \in Streams : ProcessExit(sid)

\* one session under fair scheduling: every thread that can take a step
\* eventually takes one (the servicer threads run, the reaper loop wakes up
\* every CHECK_PROCESS_INTERVAL_S), and a running backend eventually exits
SpecFair ==
  /\ Init
  /\ [][NextSolo]_vars
  /\ WF_vars(\E s \in {1} : DatapathSoloStep(s))
  /\ WF_vars(ReaperEnter)
  /\ WF_vars(ReaperPass)
  /\ WF_vars(\E sid \in Streams : ProcessExit(sid))


\* two Datapath invocations under fair scheduling: a servicer thread that
\* can take a step again and again takes it (a thread waiting for a lock
\* gets it; the reaper sleeps CHECK_PROCESS_INTERVAL_S between two passes),
\* the reaper and the backend processes take the steps they can
SpecFairStreams ==
  /\ Init
  /\ [][Next]_vars
  /\ \A s \in Streams : SF_vars(DatapathStep(s))
  /\ WF_vars(ReaperEnter)
  /\ WF_vars(ReaperPass)
  /\ WF_vars(\E sid \in Streams : ProcessExit(sid))

NextLog ==
  \/ \E s \in {1} : DatapathSoloStep(s)
  \/ ReaperEnter
  \/ ReaperPass
  \/ \E sid \in Streams : ProcessExit(sid)
  \/ LogstreamStep

\* Logstream calls beside one session, the reaper and the backend process
SpecLog == Init /\ [][NextLog]_vars

NextEnv ==
  \/ \E s \in {1} : DatapathSoloStep(s)
  \/ ReaperEnter
  \/ ReaperPass
  \/ \E sid \in Streams : ProcessExit(sid)
  \/ CreateRuntimeEnvStep

\* the calls of _create_runtime_env (made by the start of other sessions)
\* beside one session, the reaper and the backend process
SpecEnv == Init /\ [][NextEnv]_vars

\* the request stream of a new Datapath invocation, for every stream a
\* caller can send
SpecForward == Init /\ [][FwdStep]_vars

\* ------------------------------------------------------ the port pool alone
PoolPorts == MIN_SPECIFIC_SERVER_PORT .. (MIN_SPECIFIC_SERVER_PORT + MaxPool - 1)

\* a ProxyManager whose port range is MaxPool wide
InitPool ==
  /\ servers = <<>>
  /\ free_ports = RangeSeq(MIN_SPECIFIC_SERVER_PORT,
                           MIN_SPECIFIC_SERVER_PORT + MaxPool)
  /\ server_lock = NoThread
  /\ srv_port = [s \in Streams |-> 0]
  /\ fut = [s \in Streams |-> "unset"]
  /\ proc = [s \in Streams |-> "none"]
  /\ num_clients = 0
  /\ clients_last_seen = EmptyMap
  /\ reconnect_grace_periods = EmptyMap
  /\ clients_lock = NoThread
  /\ now = 0
  /\ pc = [s \in Streams |-> "idle"]
  /\ client_id = [s \in Streams |-> EmptyClientId]
  /\ reconnecting = [s \in Streams |-> FALSE]
  /\ start_time = [s \in Streams |-> 0]
  /\ server = [s \in Streams |-> NoServer]
  /\ cleanup_requested = [s \in Streams |-> FALSE]
  /\ init_req = [s \in Streams |-> "none"]
  /\ status = [s \in Streams |-> "none"]
  /\ responses = [s \in Streams |-> <<>>]
  /\ superseded = {}
  /\ rpc = RpcIdle
  /\ logs = LogIdle
  /\ env = EnvIdle
  /\ fwd = FwdIdle

\* a call of _get_unused_port (line 199) while the binds of `busy` fail: the
\* port it returns is kept as the port of the server being built, the
\* RuntimeError as the way the call ended
PoolGetUnusedPort ==
  /\ \E busy \in SUBSET PoolPorts :
       LET r == GetUnusedPort(free_ports, busy)
       IN /\ free_ports' = r.free
          /\ srv_port' = [srv_port EXCEPT ![1] = r.port]
          /\ status' = [status EXCEPT ![1] =
                          IF r.ok THEN "none" ELSE "PortExhausted"]
  /\ UNCHANGED <<servers, server_lock, dataVars, fut, proc, now, pc,
                 localVars, responses, superseded, rpc, sideVars>>

\* line 397: a port that is not in the list is appended to it
PoolAppend ==
  /\ \E port \in PoolPorts \ SeqToSet(free_ports) :
       free_ports' = Append(free_ports, port)
  /\ UNCHANGED <<servers, server_lock, srv_port, dataVars, fut, proc, now,
                 pc, localVars, status, responses, superseded, rpc, sideVars>>

NextPool == PoolGetUnusedPort \/ PoolAppend

\* _get_unused_port applied to every list of ports and every set of failing
\* binds
SpecPool == InitPool /\ [][NextPool]_vars

\* ================================================================= claims
PortsInUse == {srv_port[servers[i].sid] : i \in DOMAIN servers}
FreePortSet == SeqToSet(free_ports)

\* C1: whenever no thread holds server_lock, the ports of the registered
\* backends and the ports of _free_ports are disjoint, together they are the
\* whole port range, no port is twice in _free_ports and no two registered
\* backends share a port.
C1_PortPartition ==
  server_lock = NoThread =>
    /\ PortsInUse \cap FreePortSet = {}
    /\ PortsInUse \cup FreePortSet = Ports
    /\ Cardinality(FreePortSet) = Len(free_ports)
    /\ \A i, j \in DOMAIN servers :
         i # j => srv_port[servers[i].sid] # srv_port[servers[j].sid]

\* a backend took the second port after the bind of the first one failed,
\* another backend was reaped and its port is back in the list
C1_Witness ==
  /\ server_lock = NoThread
  /\ \E s \in Streams : srv_port[s] # 0 /\ srv_port[s] \in FreePortSet
  /\ \E i \in DOMAIN servers :
       srv_port[servers[i].sid] # MIN_SPECIFIC_SERVER_PORT

\* C2 (as claimed): a client id is a key of servers iff it is a key of
\* clients_last_seen.  Stated for the states most favourable to the claim:
\* no Datapath invocation is in progress and both locks are free.
C2_Orig ==
  ( /\ \A s \in Streams : pc[s] \in {"idle", "done"}
    /\ server_lock = NoThread /\ clients_lock = NoThread )
  => ServerKeys = DOMAIN clients_last_seen

\* C3 (as claimed): whenever clients_lock is free, num_clients is the number
\* of keys of clients_last_seen.
C3_Orig ==
  clients_lock = NoThread =>
    num_clients = Cardinality(DOMAIN clients_last_seen)

\* C4: a resolved process_handle_future never changes its value, whichever
\* set_result call comes later.
C4_FutureOneShot ==
  [][\A sid \in Streams : fut[sid] # "unset" => fut'[sid] = fut[sid]]_vars

\* a finalization called set_result(None) on a future that start_specific_
\* server had resolved to the process
C4_Witness ==
  \E s \in Streams :
    /\ status[s] = "cleaned" /\ ~reconnecting[s]
    /\ fut[s] = "proc"

\* C5 (as claimed): a get_channel(c) that follows a has_channel(c) = true,
\* with no cleanup or reaping of c in between, returns a channel.  Stated
\* granting the claim a channel that times out on a spawned process.
C5_Orig ==
  [][(/\ rpc.pc = "inner" /\ rpc.kind = "KV" /\ ~rpc.disturbed
      /\ rpc'.pc = "ret")
     => \/ rpc'.result = "channel"
        \/ /\ rpc'.result = "null"
           /\ ServersGet(rpc.client) # NoServer
           /\ fut[ServersGet(rpc.client)] = "proc"]_vars

\* an earlier invocation registered and cleaned up the client of s, and no
\* other invocation of that client is in progress
CleanedUpBefore(s) ==
  /\ \E e \in Streams \ {s} :
       /\ pc[e] = "done" /\ status[e] = "cleaned"
       /\ client_id[e] = client_id[s] /\ ~reconnecting[e]
  /\ client_id[s] \notin DOMAIN clients_last_seen

\* C6 (as claimed): after create_specific_server(c) and the finalization
\* that cleaned up c, a new create_specific_server(c) succeeds with a port
\* of the range (granted: unless no port can be bound at all).
C6_Orig ==
  [][\A s \in Streams :
       ( /\ pc[s] = "entry" /\ ~reconnecting[s] /\ pc'[s] # "entry"
         /\ CleanedUpBefore(s) )
       => \/ pc'[s] = "create" /\ srv_port'[s] \in Ports
          \/ status'[s] = "PortExhausted"]_vars

\* C7 (as claimed): once a finalization has cleaned up c, c eventually is
\* no key of servers and its port is back in _free_ports.
C7_Orig ==
  \A s \in Streams :
    (status[s] = "cleaned" /\ ~reconnecting[s])
      ~> ( /\ client_id[s] \notin ServerKeys
           /\ srv_port[s] \in FreePortSet )

\* C8: a reconnecting Datapath call for a client id that is no key of
\* clients_last_seen ends NOT_FOUND without finalization and leaves servers,
\* _free_ports, clients_last_seen, reconnect_grace_periods, num_clients and
\* every future as they were.
C8_ReconnectUnknown ==
  [][\A s \in Streams :
       ( /\ pc[s] = "entry" /\ reconnecting[s] /\ pc'[s] # "entry"
         /\ client_id[s] \notin DOMAIN clients_last_seen )
       => /\ pc'[s] = "done" /\ status'[s] = "NOT_FOUND"
          /\ UNCHANGED <<servers, free_ports, clients_last_seen,
                         reconnect_grace_periods, num_clients, fut>>]_vars

\* a reconnect was refused after the session of that client was cleaned up
C8_Witness ==
  /\ status[2] = "NOT_FOUND"
  /\ status[1] = "cleaned" /\ client_id[1] = client_id[2]

\* C9 (as claimed): when a later reconnecting stream of c recorded its start
\* time before the earlier stream reached the locked part of its
\* finalization, that finalization changes nothing.
C9_Orig ==
  [][\A e \in Streams :
       (e \in superseded /\ pc[e] = "fin_wait" /\ pc'[e] # "fin_wait")
       => UNCHANGED <<num_clients, clients_last_seen,
                      reconnect_grace_periods, fut>>]_vars

\* C10: a PING, and a KV request made while has_channel is false, are
\* answered locally: the handler does not go on to _call_inner_function
\* (get_channel), and servers, _free_ports, clients_last_seen and
\* num_clients are as before.
C10_LocalAnswers ==
  [][( /\ rpc.pc = "ret" /\ rpc' # rpc
       /\ \/ rpc'.kind = "PING"
          \/ rpc'.kind = "KV" /\ ~HasChannel(rpc'.client) )
     => /\ rpc'.pc = "ret" /\ rpc'.result = "local"
        /\ UNCHANGED <<servers, free_ports, clients_last_seen,
                       num_clients>>]_vars

\* a KV request was answered locally for a client whose backend is
\* registered but not started yet
C10_Witness ==
  /\ rpc.kind = "KV" /\ rpc.result = "local"
  /\ ServersGet(rpc.client) # NoServer
  /\ fut[ServersGet(rpc.client)] = "unset"

\* the SpecificServer object sid is a value of servers
Registered(sid) == \E i \in DOMAIN servers : servers[i].sid = sid

C12_Orig ==
  (\A s \in Streams : pc[s] \in {"idle", "done"}) => num_clients = 0

\* C13 (as claimed): get_channel(c) of a forwarded control RPC returns None
\* (and _call_inner_function sets NOT_FOUND) when c is not registered, when
\* the future holds the failure sentinel and when the channel does not get
\* ready; it does not raise.
C13_Orig ==
  [][(/\ rpc.pc = "inner" /\ rpc'.pc = "ret"
      /\ \/ ServersGet(rpc.client) = NoServer
         \/ fut[ServersGet(rpc.client)] = "failed"
         \/ proc[ServersGet(rpc.client)] = "exited")
     => rpc'.result = "null"]_vars

Bindable(free, busy) == {i \in DOMAIN free : free[i] \notin busy}
\* the least element of a non-empty set of positions
Least(S) == CHOOSE i \in S : \A j \in S : i <= j

\* C15: for every list _free_ports and every set of ports whose bind fails,
\* _get_unused_port returns the first port of the list that binds and
\* removes it, with the ports before it moved to the tail in the order
\* probed (so every port is probed at most once); if no port binds it fails
\* and the list holds the same ports as before.
C15_GetUnusedPort ==
  \A busy \in SUBSET PoolPorts :
    LET r == GetUnusedPort(free_ports, busy)
        n == Len(free_ports)
    IN IF Bindable(free_ports, busy) = {}
       THEN /\ ~r.ok
            /\ Len(r.free) = n
            /\ SeqToSet(r.free) = SeqToSet(free_ports)
       ELSE LET k == Least(Bindable(free_ports, busy))
            IN /\ r.ok
               /\ r.port = free_ports[k]
               /\ r.free = SubSeq(free_ports, k + 1, n)
                             \o SubSeq(free_ports, 1, k - 1)

\* a call returned the third port of the list after the binds of the first
\* two had failed, and those two are at the tail in the order probed
C15_Witness ==
  /\ srv_port[1] = MIN_SPECIFIC_SERVER_PORT + 2
  /\ free_ports = << MIN_SPECIFIC_SERVER_PORT + 3,
                     MIN_SPECIFIC_SERVER_PORT,
                     MIN_SPECIFIC_SERVER_PORT + 1 >>

\* C16 (as claimed): when _get_unused_port fails during a new Datapath
\* stream, the stream yields an init response with ok=false, and servers,
\* clients_last_seen and num_clients are as before the attempt.
C16_Orig ==
  [][\A s \in Streams :
       ( /\ pc[s] = "entry" /\ ~reconnecting[s]
         /\ status'[s] = "PortExhausted" )
       => /\ responses'[s] = <<InitFailure>>
          /\ UNCHANGED <<servers, clients_last_seen, num_clients>>]_vars

\* C17 (as claimed): when start_specific_server ends, the process future of
\* the backend is resolved: to the process when the spawn succeeded (and the
\* call returns true iff the process is still running), to the failure
\* sentinel when provisioning or spawning raised.
C17_Orig ==
  [][\A s \in Streams :
       ( pc[s] = "start" /\ pc'[s] # "start" )
       => /\ fut'[server[s]] # "unset"
          /\ fut'[server[s]] = "proc"
               => (pc'[s] = "get_channel" <=> proc'[server[s]] = "running")
          /\ fut'[server[s]] = "failed" => pc'[s] = "fin_wait"]_vars

\* C18: when the session start of a new stream fails (first message not of
\* variant init, start_specific_server raises or returns false, get_channel
\* gives no channel), the stream yields one response, the init response
\* with ok=false, and goes to its finalization; from there it yields
\* nothing more and only finalizes, so no stream is forwarded and nothing
\* is retried.
C18_InitFailure ==
  [][\A s \in Streams :
       /\ ( \/ pc[s] = "read_init" /\ init_req'[s] = "other"
            \/ pc[s] = "start" /\ pc'[s] \notin {"start", "get_channel"}
            \/ pc[s] = "get_channel"
                 /\ pc'[s] \notin {"get_channel", "forward"} )
          => /\ responses[s] = <<>>
             /\ responses'[s] = <<InitFailure>>
             /\ pc'[s] = "fin_wait"
       /\ pc[s] \in {"fin_wait", "fin_held", "done"}
          => /\ responses'[s] = responses[s]
             /\ pc'[s] \in {"fin_wait", "fin_held", "done"}
       /\ ( pc[s] # "done" /\ pc'[s] = "done"
            /\ responses[s] = <<InitFailure>> )
          => pc[s] \in {"fin_wait", "fin_held"}]_vars

\* a stream whose backend process was spawned but did not serve ended with
\* the init failure response as its only response, finalization done
C18_Witness ==
  \E s \in Streams :
    /\ status[s] = "cleaned" /\ responses[s] = <<InitFailure>>
    /\ fut[s] = "proc"

\* C19 (as claimed): a servicer thread blocked in get_channel(c) on the
\* unresolved future of a registered backend is eventually unblocked.
C19_Orig ==
  \A s \in Streams :
    ( /\ pc[s] = "r_channel"
      /\ ServersGet(client_id[s]) # NoServer
      /\ fut[ServersGet(client_id[s])] = "unset" )
    ~> (pc[s] # "r_channel")

\* C20 (as claimed): a Datapath invocation that has registered a backend or
\* written clients_last_seen[c] does not end before it has run its
\* finalization block.
C20_Orig ==
  [][\A s \in Streams :
       pc[s] \in {"register", "read_init", "start", "get_channel", "forward",
                  "r_server", "r_channel"}
       => pc'[s] # "done"]_vars

\* the reaper is inside its pass, holding server_lock, and the pass polls a
\* backend whose future is unresolved
ReaperWaitsInPass ==
  /\ server_lock = ReaperThread
  /\ \E i \in DOMAIN servers : PollWaits(servers[i].sid)

\* C21 (as claimed): no thread holds server_lock or clients_lock while it
\* waits for a process future or a channel, for the grace period, or while
\* it forwards: not a Datapath invocation, not a control RPC, not the
\* reaper.
C21_Orig ==
  /\ \A s \in Streams :
       pc[s] \in {"r_channel", "start", "get_channel", "forward", "fin_wait"}
       => (server_lock # s /\ clients_lock # s)
  /\ rpc.pc = "inner" => (server_lock # RpcThread /\ clients_lock # RpcThread)
  /\ ~ReaperWaitsInPass

\* C22 (as claimed): servers, _free_ports, clients_last_seen,
\* reconnect_grace_periods and num_clients are guarded by one and the same
\* mutex, so at most one thread at a time is inside a section that reads or
\* writes them.
C22_Orig ==
  ~( /\ server_lock # NoThread
     /\ clients_lock # NoThread
     /\ server_lock # clients_lock )

\* C23 (as claimed): Logstream calls get_channel at most LOGSTREAM_RETRIES
\* times; a channel is forwarded on with no further attempt; when no
\* attempt gives a channel (backend not registered, startup failed, channel
\* timeout) it ends NOT_FOUND after the last attempt, with no forwarded
\* stream and the session state as it was.
C23_Orig ==
  [][/\ logs'.attempts <= LOGSTREAM_RETRIES
     /\ logs.pc = "forward" => logs'.attempts <= logs.attempts
     /\ ( logs.pc = "get_channel" /\ logs'.pc = "done" )
        => /\ logs'.status = "NOT_FOUND"
           /\ logs.attempts = LOGSTREAM_RETRIES
           /\ UNCHANGED <<servers, free_ports, clients_last_seen,
                          reconnect_grace_periods, num_clients, fut>>]_vars

\* the waits of the claimed retry policy, in milliseconds
ClaimedWaits == <<500, 1000, 2000, 4000, 8000>>

\* C24 (as claimed): _create_runtime_env makes at most 1 + 5 POST attempts;
\* its waits are 0.5, 1, 2, 4 and 8 seconds, one between consecutive
\* attempts and none after the last attempt; OK and FAILED end the call at
\* once; TimeoutError comes only after the last attempt.
C24_Orig ==
  /\ env.posts <= 1 + max_retries
  /\ Len(env.waits) <= Len(ClaimedWaits)
  /\ \A i \in DOMAIN env.waits : env.waits[i] = ClaimedWaits[i]
  /\ env.pc = "done" => Len(env.waits) = env.posts - 1
  /\ env.result = "TimeoutError" => env.posts = 1 + max_retries

\* C25: on a new stream whose start succeeds the first message forwarded to
\* the backend is the prepared init message, every later forwarded message
\* is the caller's message at the same position (none dropped, duplicated
\* or reordered), and when the request stream is exhausted every message
\* of the caller has been forwarded.
C25_ForwardOrder ==
  /\ Len(fwd.forwarded) <= Len(fwd.caller.msgs)
  /\ fwd.forwarded # <<>>
     => fwd.forwarded[1] = PrepareInitReq(fwd.caller.msgs[1])
  /\ \A i \in DOMAIN fwd.forwarded :
       i > 1 => fwd.forwarded[i] = fwd.caller.msgs[i]
  /\ fwd.pc = "forward"
     => Len(fwd.forwarded) + Len(fwd.new_iter.head)
          + Len(fwd.new_iter.iter.msgs) = Len(fwd.caller.msgs)
  /\ fwd.exhausted => Len(fwd.forwarded) = Len(fwd.caller.msgs)

\* a caller sent MaxMsgs messages and all of them were forwarded, the
\* prepared init message first
C25_Witness ==
  /\ fwd.exhausted
  /\ Len(fwd.forwarded) = MaxMsgs
  /\ fwd.forwarded[1].mutated

\* another Datapath invocation of the client of e that passed the reconnect
\* check and has not reached its finalization
OpenReconnected(e) ==
  \E r \in Streams \ {e} :
    /\ client_id[r] = client_id[e] /\ reconnecting[r]
    /\ pc[r] \in {"r_server", "r_channel", "forward"}

\* C26 (as claimed): a finalization does not clean up client c (decrement
\* num_clients, delete c from clients_last_seen, resolve the future to the
\* failure sentinel) while another stream of c that passed the reconnect
\* check is still open.
C26_Orig ==
  [][\A e \in Streams :
       ( pc[e] = "fin_wait" /\ pc'[e] = "fin_held" ) => ~OpenReconnected(e)]_vars

\* how often a port occurs in a list
Occurrences(free, port) == Cardinality({i \in DOMAIN free : free[i] = port})

\* the SpecificServer objects a step removes from servers
Removed == {sid \in Streams : Registered(sid) /\ ~Registered(sid)'}

\* C27: a backend is removed from servers only by the reaper, under
\* server_lock, and only when its future holds a process that has exited;
\* the removal appends the port of that backend to _free_ports once, and
\* _free_ports grows by nothing else.
C27_ReaperSafety ==
  [][/\ \A sid \in Removed :
          /\ server_lock = ReaperThread
          /\ fut[sid] = "proc" /\ proc[sid] = "exited"
          /\ Occurrences(free_ports', srv_port[sid])
               = Occurrences(free_ports, srv_port[sid]) + 1
     /\ Len(free_ports') > Len(free_ports)
          => Len(free_ports') = Len(free_ports) + Cardinality(Removed)
     /\ \A port \in Ports :
          Occurrences(free_ports', port) > Occurrences(free_ports, port)
          => \E sid \in Removed : srv_port[sid] = port]_vars

\* the reaper removed the backend of one client while the backend of
\* another client, not started or not exited, stayed registered
C27_Witness ==
  \E a, b \in Streams :
    /\ a # b
    /\ ~Registered(a) /\ proc[a] = "exited" /\ srv_port[a] \in FreePortSet
    /\ Registered(b) /\ (fut[b] # "proc" \/ proc[b] = "running")

\* the threads that take locks
Threads == Streams \cup {ReaperThread, RpcThread, LogThread}

\* C28: no thread acquires server_lock while it holds clients_lock, or
\* clients_lock while it holds server_lock; a thread that holds one of the
\* locks can always take its next step, so threads never wait for the two
\* locks in a cycle.
C28_LockOrder ==
  /\ [](\A th \in Threads : ~(server_lock = th /\ clients_lock = th))
  /\ [][\A th \in Threads :
          /\ (server_lock' = th /\ server_lock # th) => clients_lock # th
          /\ (clients_lock' = th /\ clients_lock # th) => server_lock # th]_vars
  /\ [](\A s \in Streams :
          (server_lock = s \/ clients_lock = s) => ENABLED DatapathStep(s))
  /\ [](server_lock = ReaperThread => ENABLED ReaperPass)

\* one Datapath invocation is inside create_specific_server, holding
\* server_lock, while another is inside its cleanup, holding clients_lock
C28_Witness ==
  \E a, b \in Streams :
    a # b /\ server_lock = a /\ clients_lock = b

====
